---- MODULE Spec2Model ----
(***************************************************************************)
(* A model of the IOE static analyzer (tools/static_analysis.py): the     *)
(* complexity visitor, the security scanner, the file analyzer, the       *)
(* `analyze` command and its three report renderers; and of the           *)
(* in-memory user store (modules/database.py).                            *)
(***************************************************************************)
EXTENDS Integers, Sequences, FiniteSets, TLC

VARIABLES
    \* ---- ComplexityAnalyzer traversal (analyzer.visit(tree)) ----
    tree,        \* the syntax tree being visited (nodes in preorder)
    cursor,      \* number of nodes of `tree` whose visit_* has been entered
    vstack,      \* nodes whose visit_* call is active (the Python call stack)
    analyzer,    \* the ComplexityAnalyzer object's fields
    vpc,         \* "parsing" | "visiting" | "done" ("idle": not in use)
    \* ---- SecurityAnalyzer.analyze_file(file_path, content) ----
    sec_lines,   \* lines = content.split('\n')
    sec_i,       \* number of lines the outer loop has handled
    sec_issues,  \* the local list `issues`
    sec_pc,      \* "scanning" | "done" ("idle": not in use)
    \* ---- analyze_file(file_path) ----
    af_file,     \* the file at file_path
    af_result,   \* the AnalysisResult returned
    af_pc,       \* "called" | "returned" ("idle": not in use)
    \* ---- the `analyze` command ----
    root,        \* what PATH names: [is_file, listing (the files at or below it)]
    args,        \* [output, min_severity, report_file ("": not given)]
    disk_ok,     \* whether the report file can be opened for writing
    files_to_analyze,
    results,
    report,      \* the report produced: on stdout or in a file
    messages,    \* the status lines printed on the console
    exit_code,
    pc,          \* "start" | "analyzing" | "done" ("idle": not in use)
    \* ---- Database (modules/database.py) ----
    is_connected,
    data,        \* self.data: table name -> list of records (<<>>: not in use)
    stats,       \* self.stats
    now,         \* the clock datetime.now() reads
    db_return    \* how the last call ended: [op, value, raised]

visitVars == <<tree, cursor, vstack, analyzer, vpc>>
secVars == <<sec_lines, sec_i, sec_issues, sec_pc>>
fileVars == <<af_file, af_result, af_pc>>
cmdVars == <<root, args, disk_ok, files_to_analyze, results, report, messages,
             exit_code, pc>>
dbVars == <<is_connected, data, stats, now, db_return>>
vars == <<visitVars, secVars, fileVars, cmdVars, dbVars>>

----------------------------------------------------------------------------
(* Bounds of the model *)

MaxNodes == 3
MaxLines == 2
MaxFiles == 2
MaxClock == 3
MaxUserId == 2
MaxCalls == 3

----------------------------------------------------------------------------
(* Syntax trees.  A tree is a sequence of nodes numbered in preorder; node  *)
(* 0 is the Module root, `parent` is the index of the enclosing node.       *)
(* end_lineno = 0 stands for an end line that is absent or None.            *)

Max(a, b) == IF a >= b THEN a ELSE b

Range(seq) == { seq[k] : k \in 1..Len(seq) }

\* A float, kept as an exact fraction.
Frac(n, d) == [num |-> n, den |-> d]

\* Mutant: a value equal to the threshold exceeds it.
FracGT_OrEqual(q, k) == q.num >= k * q.den

FracGT(q, k) == q.num > k * q.den

\* Mutant: a value equal to the threshold is below it.
FracLT_OrEqual(q, k) == q.num <= k * q.den

FracLT(q, k) == q.num < k * q.den

\* The innermost active node of a stack of nodes; 0 is the Module.
Top(s) == IF s = <<>> THEN 0 ELSE s[Len(s)]

FunctionKinds == {"FunctionDef", "AsyncFunctionDef"}

NestKinds == {"ClassDef", "If", "While", "For", "Try"}

Kinds == FunctionKinds \cup NestKinds \cup {"ExceptHandler", "Other"}

Node(k, p, doc, l, e) ==
    [kind |-> k, parent |-> p, doc |-> doc, lineno |-> l, end_lineno |-> e,
     module |-> "", names |-> <<>>]

\* `import a, b`: kind Import, names = <<a, b>> (alias.name of each alias).
\* `from m import y, z`: kind ImportFrom, module = m, names = <<y, z>>;
\* module = "" stands for node.module = None (`from . import y`).
ImportNode(k, p, l, module, names) ==
    [kind |-> k, parent |-> p, doc |-> FALSE, lineno |-> l, end_lineno |-> l,
     module |-> module, names |-> names]

KindOf(t, i) == IF i = 0 THEN "Module" ELSE t[i].kind

RECURSIVE AncestorsOrSelf(_, _)
AncestorsOrSelf(t, i) ==
    IF i = 0 THEN {0} ELSE {i} \cup AncestorsOrSelf(t, t[i].parent)

\* The nodes that may stand at position k of a preorder numbering; only
\* functions carry the line span the visitor reads.
NodesAt(k) ==
    { Node(x[1], x[2], FALSE, k, x[3]) :
        x \in { y \in Kinds \X (0..(k - 1)) \X {0, k + 1} :
                  y[1] \notin FunctionKinds => y[3] = 0 } }

\* Node nd may follow tree t in preorder: it hangs below a node of the
\* rightmost path, and an ExceptHandler only occurs as a handler of a Try.
MayFollow(t, nd) ==
    /\ nd.parent \in AncestorsOrSelf(t, Len(t))
    /\ (nd.kind = "ExceptHandler" => KindOf(t, nd.parent) = "Try")

----------------------------------------------------------------------------
(* ComplexityAnalyzer: the fields and the visit_* handlers.  Each handler   *)
(* is split at its generic_visit(node) call into the part run on entry and  *)
(* the part run when the children have been visited.                        *)

ComplexityAnalyzer_init ==
    [complexity |-> 0, nesting_depth |-> 0, max_nesting_depth |-> 0,
     function_count |-> 0, class_count |-> 0, lines_of_code |-> 0,
     function_lengths |-> <<>>]

\* The values of the variables a specification does not use.
VisitIdle == /\ tree = <<>>
             /\ cursor = 0
             /\ vstack = <<>>
             /\ analyzer = ComplexityAnalyzer_init
             /\ vpc = "idle"

SecIdle == /\ sec_lines = <<>>
           /\ sec_i = 0
           /\ sec_issues = <<>>
           /\ sec_pc = "idle"

FileIdle == /\ af_file = <<>>
            /\ af_result = <<>>
            /\ af_pc = "idle"

NoReport == [kind |-> "none"]

CmdIdle == /\ root = <<>>
           /\ args = <<>>
           /\ disk_ok = TRUE
           /\ files_to_analyze = <<>>
           /\ results = <<>>
           /\ report = NoReport
           /\ messages = <<>>
           /\ exit_code = 0
           /\ pc = "idle"

DbIdle == /\ is_connected = FALSE
          /\ data = <<>>
          /\ stats = <<>>
          /\ now = 0
          /\ db_return = [op |-> "none"]

EnterNest(an) ==
    [an EXCEPT !.nesting_depth = @ + 1,
               !.max_nesting_depth = Max(@, an.nesting_depth + 1)]

\* Mutant: the handler forgets to decrement on leaving.
LeaveNest_NoDecrement(an) == an

LeaveNest(an) == [an EXCEPT !.nesting_depth = @ - 1]

\* Mutant: the length is recorded whether or not the node has an end line.
visit_FunctionDef_enter_NoEndCheck(an, node) ==
    EnterNest([an EXCEPT
        !.function_count = @ + 1,
        !.function_lengths = Append(@, node.end_lineno - node.lineno + 1)])

visit_FunctionDef_enter(an, node) ==
    EnterNest([an EXCEPT
        !.function_count = @ + 1,
        !.function_lengths =
            IF node.end_lineno # 0
            THEN Append(@, node.end_lineno - node.lineno + 1)
            ELSE @])

visit_ClassDef_enter(an) == EnterNest([an EXCEPT !.class_count = @ + 1])

\* Mutant: control statements nest and are not counted.
visit_Control_enter_NoCount(an) == EnterNest(an)

visit_Control_enter(an) == EnterNest([an EXCEPT !.complexity = @ + 1])

\* Mutant: except handlers are not counted.
visit_ExceptHandler_enter_NoCount(an) == an

visit_ExceptHandler_enter(an) == [an EXCEPT !.complexity = @ + 1]

\* NodeVisitor.visit: dispatch on the node's class name; a class without a
\* visit_* method (Module, and every "Other" node) goes to generic_visit.
VisitEnter(an, node) ==
    CASE node.kind \in FunctionKinds -> visit_FunctionDef_enter(an, node)
      [] node.kind = "ClassDef" -> visit_ClassDef_enter(an)
      [] node.kind \in {"If", "While", "For", "Try"} -> visit_Control_enter(an)
      [] node.kind = "ExceptHandler" -> visit_ExceptHandler_enter(an)
      [] OTHER -> an

VisitLeave(an, kind) ==
    IF kind \in FunctionKinds \cup NestKinds THEN LeaveNest(an) ELSE an

----------------------------------------------------------------------------
(* Source lines.  A line is its text; what re.search, str.strip and the     *)
(* blank/comment test of analyze_complexity return for the sample lines is  *)
(* tabulated below (the values Python computes for these texts).            *)

SECURITY_PATTERNS == <<
    [pattern |-> "eval\\s*\\(", message |-> "Use of eval() can be dangerous"],
    [pattern |-> "exec\\s*\\(", message |-> "Use of exec() can be dangerous"],
    [pattern |-> "subprocess\\.call\\s*\\([^)]*shell\\s*=\\s*True",
     message |-> "Shell=True in subprocess can be risky"],
    [pattern |-> "pickle\\.loads?\\s*\\(", message |-> "Pickle deserialization can be unsafe"],
    [pattern |-> "yaml\\.load\\s*\\([^)]*Loader\\s*=\\s*yaml\\.Loader",
     message |-> "YAML unsafe loading"],
    [pattern |-> "request\\.args\\.get\\([^)]*\\)",
     message |-> "Direct use of request parameters without validation"],
    [pattern |-> "sql.*%.*%", message |-> "Possible SQL injection vulnerability"],
    [pattern |-> "os\\.system\\s*\\(", message |-> "Use of os.system() can be dangerous"] >>

\* A source line: `indent` leading blanks, then `text` (which neither starts
\* nor ends with a blank).
Line(n, text) == [indent |-> n, text |-> text]

\* The texts of the lines files are made of in the scanner's specification.
LineTexts ==
    { "x = 1", "", "result = eval(expr)", "# exec(code)", "msg = 'call eval(x)'",
      "os.system(\"rm -rf /tmp/x\")", "pickle.loads(eval(blob))", "def broken(:",
      "EVAL (x)", "subprocess.call(cmd, shell=True)",
      "yaml.load(f, Loader=yaml.Loader)", "uid = request.args.get('id')",
      "q = 'select * from sql_t where a=%s and b=%s' % (a, b)" }

LineCatalog == { Line(0, t) : t \in LineTexts }

\* The indices of the patterns p for which re.search(p, line, re.IGNORECASE)
\* finds a match (no pattern is anchored, none matches blanks alone: the
\* indentation does not matter).
Hits(line) ==
    CASE line.text \in {"result = eval(expr)", "msg = 'call eval(x)'", "EVAL (x)"} -> {1}
      [] line.text = "# exec(code)" -> {2}
      [] line.text = "subprocess.call(cmd, shell=True)" -> {3}
      [] line.text = "pickle.loads(eval(blob))" -> {1, 4}
      [] line.text = "yaml.load(f, Loader=yaml.Loader)" -> {5}
      [] line.text = "uid = request.args.get('id')" -> {6}
      [] line.text = "q = 'select * from sql_t where a=%s and b=%s' % (a, b)" -> {7}
      [] line.text = "os.system(\"rm -rf /tmp/x\")" -> {8}
      [] OTHER -> {}

re_search(j, line) == j \in Hits(line)

\* line.strip()
strip(line) == line.text

\* line.strip().startswith('#')
IsComment(line) == strip(line) \in {"# exec(code)", "# note"}

----------------------------------------------------------------------------
(* SecurityAnalyzer.analyze_file *)

\* A message: a text with the values an f-string formats into it.
Msg(text, values) == [text |-> text, values |-> values]

SecurityIssue(i, line, j) ==
    [type |-> "security", line |-> i, severity |-> "high",
     message |-> Msg(SECURITY_PATTERNS[j].message, <<>>), code |-> strip(line)]

\* Mutant: the inner loop stops at the first pattern that matches.
RECURSIVE MatchRules_FirstOnly(_, _, _)
MatchRules_FirstOnly(line, i, j) ==
    IF j > Len(SECURITY_PATTERNS) THEN <<>>
    ELSE IF re_search(j, line) THEN <<SecurityIssue(i, line, j)>>
    ELSE MatchRules_FirstOnly(line, i, j + 1)

\* for pattern, message in SECURITY_PATTERNS, from the j-th on: line i.
RECURSIVE MatchRules(_, _, _)
MatchRules(line, i, j) ==
    IF j > Len(SECURITY_PATTERNS) THEN <<>>
    ELSE (IF re_search(j, line) THEN <<SecurityIssue(i, line, j)>> ELSE <<>>)
         \o MatchRules(line, i, j + 1)

\* for i, line in enumerate(lines, 1), from line i on.
RECURSIVE ScanLines(_, _)
ScanLines(lines, i) ==
    IF i > Len(lines) THEN <<>>
    ELSE MatchRules(lines[i], i, 1) \o ScanLines(lines, i + 1)

SecurityAnalyzer_analyze_file(lines) == ScanLines(lines, 1)

\* One iteration of the outer loop: every pattern is tried on the line.
scan_line ==
    /\ sec_pc = "scanning"
    /\ sec_i < Len(sec_lines)
    /\ sec_issues' = sec_issues \o MatchRules(sec_lines[sec_i + 1], sec_i + 1, 1)
    /\ sec_i' = sec_i + 1
    /\ UNCHANGED <<sec_lines, sec_pc>>
    /\ UNCHANGED <<visitVars, fileVars, cmdVars, dbVars>>

\* return issues
scan_return ==
    /\ sec_pc = "scanning"
    /\ sec_i = Len(sec_lines)
    /\ sec_pc' = "done"
    /\ UNCHANGED <<sec_lines, sec_i, sec_issues>>
    /\ UNCHANGED <<visitVars, fileVars, cmdVars, dbVars>>

\* content.split('\n') yields at least one line.
InitSecurity ==
    /\ sec_lines \in UNION { [1..n -> LineCatalog] : n \in 1..MaxLines }
    /\ sec_i = 0
    /\ sec_issues = <<>>
    /\ sec_pc = "scanning"
    /\ VisitIdle
    /\ FileIdle
    /\ DbIdle
    /\ CmdIdle

NextSecurity == scan_line \/ scan_return

SpecSecurity == InitSecurity /\ [][NextSecurity]_vars

(* Claims about the Security Scanner (checked under SpecSecurity). *)

\* The (line number, rule index) pairs where the rule matches the line.
MatchPairs(lines) ==
    { p \in (1..Len(lines)) \X (1..Len(SECURITY_PATTERNS)) :
        re_search(p[2], lines[p[1]]) }

RuleOf(message) ==
    CHOOSE j \in 1..Len(SECURITY_PATTERNS) : SECURITY_PATTERNS[j].message = message.text

\* Issue a comes before issue b: earlier line, or same line and earlier rule.
IssueBefore(a, b) ==
    \/ a.line < b.line
    \/ a.line = b.line /\ RuleOf(a.message) < RuleOf(b.message)

\* C9: the scanner returns one issue per (line, rule) pair where the rule
\* matches the line, nothing deduplicated; each has the 1-based line number
\* and severity "high"; they come by line and, within a line, in catalog
\* order.
C9_OneIssuePerMatch ==
    sec_pc = "done" =>
      /\ Len(sec_issues) = Cardinality(MatchPairs(sec_lines))
      /\ \A k \in 1..Len(sec_issues) :
           /\ sec_issues[k].type = "security"
           /\ sec_issues[k].severity = "high"
           /\ <<sec_issues[k].line, RuleOf(sec_issues[k].message)>> \in MatchPairs(sec_lines)
      /\ \A k \in 1..(Len(sec_issues) - 1) :
           IssueBefore(sec_issues[k], sec_issues[k + 1])

\* One line matching two rules, and one rule matching on two lines.
C9_Witness ==
    /\ sec_pc = "done"
    /\ sec_lines = <<Line(0, "pickle.loads(eval(blob))"), Line(0, "result = eval(expr)")>>
    /\ Len(sec_issues) = 3
    /\ sec_issues[1].line = 1 /\ sec_issues[2].line = 1 /\ sec_issues[3].line = 2
    /\ sec_issues[1].message = sec_issues[3].message

----------------------------------------------------------------------------
(* analyze_complexity, analyze_documentation, DependencyAnalyzer and        *)
(* analyze_file, as functions of a file.  A file is                         *)
(*   [path, readable, parses, lines, tree]:                                 *)
(* `lines` is content.split('\n'), `tree` is what ast.parse(content)        *)
(* returns when `parses`, and ast.parse raises SyntaxError otherwise.       *)
(* Floats are kept as exact fractions [num, den].                           *)

RECURSIVE Sum(_)
Sum(seq) == IF seq = <<>> THEN 0 ELSE seq[1] + Sum(SubSeq(seq, 2, Len(seq)))

\* analyzer.visit(tree): the traversal, from the state in which `cur` nodes
\* have been entered and the handlers of `stack` are active.
RECURSIVE Walk(_, _, _, _)
Walk(t, cur, stack, an) ==
    LET s == [stack |-> stack, analyzer |-> an] IN
    IF cur < Len(t) /\ t[cur + 1].parent = Top(s.stack)
    THEN Walk(t, cur + 1, Append(s.stack, cur + 1), VisitEnter(s.analyzer, t[cur + 1]))
    ELSE IF s.stack # <<>>
    THEN Walk(t, cur, SubSeq(s.stack, 1, Len(s.stack) - 1),
              VisitLeave(s.analyzer, t[Top(s.stack)].kind))
    ELSE s.analyzer

COMPLEXITY_THRESHOLDS ==
    [function_lines |-> 50, function_params |-> 7, class_methods |-> 20,
     nesting_depth |-> 4, cyclomatic_complexity |-> 10]

ComplexityMetrics(cc, loc, fc, clc, depth, avg) ==
    [cyclomatic_complexity |-> cc, lines_of_code |-> loc, function_count |-> fc,
     class_count |-> clc, max_nesting_depth |-> depth, avg_function_length |-> avg]

analyze_complexity(file) ==
    IF file.parses
    THEN LET an == Walk(file.tree, 0, <<>>, ComplexityAnalyzer_init)
             loc == Cardinality({ i \in 1..Len(file.lines) :
                        strip(file.lines[i]) # "" /\ ~IsComment(file.lines[i]) })
             avg == IF an.function_lengths # <<>>
                    THEN Frac(Sum(an.function_lengths), Len(an.function_lengths))
                    ELSE Frac(0, 1)
         IN ComplexityMetrics(an.complexity, loc, an.function_count,
                              an.class_count, an.max_nesting_depth, avg)
    ELSE ComplexityMetrics(0, 0, 0, 0, 0, Frac(0, 1))

DocAnalysis(fcov, ccov, tf, tc, df, dc) ==
    [function_docstring_coverage |-> fcov, class_docstring_coverage |-> ccov,
     total_functions |-> tf, total_classes |-> tc,
     documented_functions |-> df, documented_classes |-> dc]

\* Mutant: the coverage is the ratio documented / total, not a percentage.
analyze_documentation_Ratio(file) ==
    IF file.parses
    THEN LET t == file.tree
             funcs == { i \in 1..Len(t) : t[i].kind = "FunctionDef" }
             classes == { i \in 1..Len(t) : t[i].kind = "ClassDef" }
             tf == Cardinality(funcs)
             tc == Cardinality(classes)
             df == Cardinality({ i \in funcs : t[i].doc })
             dc == Cardinality({ i \in classes : t[i].doc })
         IN DocAnalysis(IF tf > 0 THEN Frac(df, tf) ELSE Frac(0, 1),
                        IF tc > 0 THEN Frac(dc, tc) ELSE Frac(0, 1),
                        tf, tc, df, dc)
    ELSE DocAnalysis(Frac(0, 1), Frac(0, 1), 0, 0, 0, 0)

\* ast.walk(tree) reaches every node; only ast.FunctionDef and ast.ClassDef
\* instances are counted, ast.get_docstring(node) is the node's `doc`.
analyze_documentation(file) ==
    IF file.parses
    THEN LET t == file.tree
             funcs == { i \in 1..Len(t) : t[i].kind = "FunctionDef" }
             classes == { i \in 1..Len(t) : t[i].kind = "ClassDef" }
             tf == Cardinality(funcs)
             tc == Cardinality(classes)
             df == Cardinality({ i \in funcs : t[i].doc })
             dc == Cardinality({ i \in classes : t[i].doc })
         IN DocAnalysis(IF tf > 0 THEN Frac(df * 100, tf) ELSE Frac(0, 1),
                        IF tc > 0 THEN Frac(dc * 100, tc) ELSE Frac(0, 1),
                        tf, tc, df, dc)
    ELSE DocAnalysis(Frac(0, 1), Frac(0, 1), 0, 0, 0, 0)

\* Mutant: the names imported by `from m import y` are recorded as well.
WalkImports_WithNames(file) ==
    LET t == file.tree IN
    IF file.parses
    THEN UNION { Range(t[i].names) :
                   i \in { n \in 1..Len(t) : t[n].kind \in {"Import", "ImportFrom"} } }
         \cup { t[i].module :
                   i \in { n \in 1..Len(t) : t[n].kind = "ImportFrom" /\ t[n].module # "" } }
    ELSE {}

\* for node in ast.walk(tree): the names added to the analyzer's sets; none
\* when ast.parse raises SyntaxError.
WalkImports(file) ==
    LET t == file.tree IN
    IF file.parses
    THEN UNION { Range(t[i].names) : i \in { n \in 1..Len(t) : t[n].kind = "Import" } }
         \cup { t[i].module :
                   i \in { n \in 1..Len(t) : t[n].kind = "ImportFrom" /\ t[n].module # "" } }
    ELSE {}

\* Mutant: the analyzer lives as long as the process and keeps what the
\* earlier files of `results` put into it.
DependencyAnalyzer_init_Shared ==
    [imports |-> UNION { { <<results[k].file_path, m>> :
                             m \in results[k].metrics.dependencies.imports } :
                           k \in { j \in 1..Len(results) : DOMAIN results[j].metrics # {} } },
     modules |-> UNION { results[k].metrics.dependencies.imports :
                           k \in { j \in 1..Len(results) : DOMAIN results[j].metrics # {} } }]

\* DependencyAnalyzer(): imports is a defaultdict(set), kept as the set of
\* its (path, module) pairs; modules is a set.
DependencyAnalyzer_init == [imports |-> {}, modules |-> {}]

\* DependencyAnalyzer().analyze_file: analyze_file builds a new analyzer for
\* every file, so `modules` holds this file's modules only.  The list made
\* from the set has no defined order: it is kept as a set.
DependencyAnalyzer_analyze_file(file) ==
    LET self == DependencyAnalyzer_init
        found == WalkImports(file)
        imports == self.imports \cup { <<file.path, m>> : m \in found }
        modules == self.modules \cup found
    IN [imports |-> { q[2] : q \in { x \in imports : x[1] = file.path } },
        total_modules |-> Cardinality(modules)]

AnalysisResult(path, issues, metrics, suggestions) ==
    [file_path |-> path, issues |-> issues, metrics |-> metrics,
     suggestions |-> suggestions]

\* The entries (issue, suggestion) analyze_file derives from the complexity
\* thresholds, in order.
ComplexityFindings(c) ==
    (IF c.cyclomatic_complexity > COMPLEXITY_THRESHOLDS.cyclomatic_complexity
     THEN << [issue |-> [type |-> "complexity", severity |-> "warning",
                         message |-> Msg("High cyclomatic complexity: {}", <<Frac(c.cyclomatic_complexity, 1)>>),
                         threshold |-> COMPLEXITY_THRESHOLDS.cyclomatic_complexity],
              suggestion |-> "Consider breaking down complex functions into smaller ones"] >>
     ELSE <<>>)
    \o
    (IF c.max_nesting_depth > COMPLEXITY_THRESHOLDS.nesting_depth
     THEN << [issue |-> [type |-> "complexity", severity |-> "warning",
                         message |-> Msg("Deep nesting detected: {} levels", <<Frac(c.max_nesting_depth, 1)>>),
                         threshold |-> COMPLEXITY_THRESHOLDS.nesting_depth],
              suggestion |-> "Reduce nesting depth by extracting functions or using early returns"] >>
     ELSE <<>>)
    \o
    (IF FracGT(c.avg_function_length, COMPLEXITY_THRESHOLDS.function_lines)
     THEN << [issue |-> [type |-> "complexity", severity |-> "info",
                         message |-> Msg("Long functions detected: avg {:.1f} lines", <<c.avg_function_length>>),
                         threshold |-> COMPLEXITY_THRESHOLDS.function_lines],
              suggestion |-> "Consider breaking long functions into smaller, focused functions"] >>
     ELSE <<>>)

DocumentationFindings(d) ==
    (IF FracLT(d.function_docstring_coverage, 50)
     THEN << [issue |-> [type |-> "documentation", severity |-> "info",
                         message |-> Msg("Low function documentation coverage: {:.1f}%",
                                        <<d.function_docstring_coverage>>)],
              suggestion |-> "Add docstrings to functions for better documentation"] >>
     ELSE <<>>)
    \o
    (IF FracLT(d.class_docstring_coverage, 70)
     THEN << [issue |-> [type |-> "documentation", severity |-> "info",
                         message |-> Msg("Low class documentation coverage: {:.1f}%",
                                        <<d.class_docstring_coverage>>)],
              suggestion |-> "Add docstrings to classes for better documentation"] >>
     ELSE <<>>)

IssuesOf(findings) == [k \in 1..Len(findings) |-> findings[k].issue]

\* Mutant: the suggestions are listed last first.
SuggestionsOf_Reversed(findings) ==
    [k \in 1..Len(findings) |-> findings[Len(findings) + 1 - k].suggestion]

SuggestionsOf(findings) == [k \in 1..Len(findings) |-> findings[k].suggestion]

\* Mutant: the security scan is skipped when the file does not parse.
SecurityIssuesOfFile_ParsedOnly(file) ==
    IF file.parses THEN SecurityAnalyzer_analyze_file(file.lines) ELSE <<>>

\* security_analyzer.analyze_file(file_path, content)
SecurityIssuesOfFile(file) == SecurityAnalyzer_analyze_file(file.lines)

\* Mutant: the security scan runs although the file could not be read.
ReadFailure_WithScan(file) ==
    AnalysisResult(file.path,
                   << [type |-> "error", message |-> Msg("Cannot read file: {}", <<>>)] >>
                     \o SecurityIssuesOfFile(file),
                   [x \in {} |-> x], <<>>)

\* except Exception as e: the result returned when the file cannot be read.
ReadFailure(file) ==
    AnalysisResult(file.path,
                   << [type |-> "error", message |-> Msg("Cannot read file: {}", <<>>)] >>,
                   [x \in {} |-> x], <<>>)

analyze_file(file) ==
    IF ~file.readable
    THEN ReadFailure(file)
    ELSE LET complexity == analyze_complexity(file)
             cf == ComplexityFindings(complexity)
             security_issues == SecurityIssuesOfFile(file)
             doc_analysis == analyze_documentation(file)
             df == DocumentationFindings(doc_analysis)
             dep_analysis == DependencyAnalyzer_analyze_file(file)
         IN AnalysisResult(file.path,
                           IssuesOf(cf) \o security_issues \o IssuesOf(df),
                           [complexity |-> complexity, documentation |-> doc_analysis,
                            dependencies |-> dep_analysis],
                           SuggestionsOf(cf) \o SuggestionsOf(df))

----------------------------------------------------------------------------
(* Files.  A path is the sequence of its components. *)

\* `error` is the class of the exception ast.parse(content) raises on the
\* file's content ("" when it returns a tree).
File(path, readable, parses, lines, t) ==
    [path |-> path, readable |-> readable, parses |-> parses, lines |-> lines,
     tree |-> t, error |-> IF readable /\ ~parses THEN "SyntaxError" ELSE ""]

\* One undocumented function: a for loop holding two nested ifs, the inner
\* one calling os.system.
ScenarioFile ==
    File(<<"proj", "scenario.py">>, TRUE, TRUE,
         << Line(0, "def process(items):"), Line(4, "for item in items:"),
            Line(8, "if item:"), Line(12, "if item > 1:"),
            Line(16, "os.system(\"rm -rf /tmp/x\")") >>,
         << Node("FunctionDef", 0, FALSE, 1, 5), Node("For", 1, FALSE, 2, 5),
            Node("If", 2, FALSE, 3, 5), Node("If", 3, FALSE, 4, 5),
            Node("Other", 4, FALSE, 5, 5) >>)

\* A documented class with a documented method.
CleanFile ==
    File(<<"proj", "clean.py">>, TRUE, TRUE,
         << Line(0, "import os"), Line(0, "class Box:"), Line(4, "\"\"\"A box.\"\"\""),
            Line(4, "def area(self):"), Line(8, "\"\"\"Area.\"\"\""),
            Line(8, "return 1") >>,
         << ImportNode("Import", 0, 1, "", <<"os">>), Node("ClassDef", 0, TRUE, 2, 6),
            Node("Other", 2, FALSE, 3, 3), Node("FunctionDef", 2, TRUE, 4, 6),
            Node("Other", 4, FALSE, 5, 5), Node("Other", 4, FALSE, 6, 6) >>)

\* A function nested five deep.
DeepFile ==
    File(<<"proj", "deep.py">>, TRUE, TRUE,
         << Line(0, "def walk(a, b, c, d):"), Line(4, "if a:"), Line(8, "if b:"),
            Line(12, "if c:"), Line(16, "if d:"), Line(20, "return 1") >>,
         << Node("FunctionDef", 0, FALSE, 1, 6), Node("If", 1, FALSE, 2, 6),
            Node("If", 2, FALSE, 3, 6), Node("If", 3, FALSE, 4, 6),
            Node("If", 4, FALSE, 5, 6), Node("Other", 5, FALSE, 6, 6) >>)

\* A function nested five deep around an os.system call.
DeepSystemFile ==
    File(<<"proj", "deepsys.py">>, TRUE, TRUE,
         << Line(0, "def wipe(a, b, c, d):"), Line(4, "if a:"), Line(8, "if b:"),
            Line(12, "if c:"), Line(16, "if d:"),
            Line(20, "os.system(\"rm -rf /tmp/x\")") >>,
         << Node("FunctionDef", 0, FALSE, 1, 6), Node("If", 1, FALSE, 2, 6),
            Node("If", 2, FALSE, 3, 6), Node("If", 3, FALSE, 4, 6),
            Node("If", 4, FALSE, 5, 6), Node("Other", 5, FALSE, 6, 6) >>)

\* eval( inside a string literal, exec( inside a comment.
LiteralFile ==
    File(<<"proj", "literal.py">>, TRUE, TRUE,
         << Line(0, "msg = 'call eval(x)'"), Line(0, "# exec(code)") >>,
         << Node("Other", 0, FALSE, 1, 1) >>)

\* A file that does not parse.
BrokenFile ==
    File(<<"proj", "broken.py">>, TRUE, FALSE,
         << Line(0, "result = eval(expr)"), Line(0, "def broken(:") >>, <<>>)

\* One assignment whose right-hand side is a sum of several thousand terms:
\* ast.parse raises RecursionError ("maximum recursion depth exceeded during
\* ast construction") on it.
ChainFile ==
    [File(<<"proj", "chain.py">>, TRUE, FALSE, << Line(0, "total = 1 + 1 + 1") >>, <<>>)
       EXCEPT !.error = "RecursionError"]

\* A file open() fails on.
UnreadableFile == File(<<"proj", "locked.py">>, FALSE, FALSE, <<>>, <<>>)

\* The file f when reading it fails (its content is what a successful read
\* would have returned).
Unreadable(f) == [f EXCEPT !.readable = FALSE, !.error = ""]

SampleFiles ==
    {ScenarioFile, CleanFile, DeepFile, LiteralFile, BrokenFile, ChainFile,
     UnreadableFile}

\* analyze_complexity, analyze_documentation and DependencyAnalyzer.analyze_file
\* catch SyntaxError alone: any other exception of ast.parse leaves them, and
\* analyze_file with them.
Propagates(file) == file.readable /\ file.error \notin {"", "SyntaxError"}

\* The tree of a file of simple statements: one node per statement line.
RECURSIVE StatementNodes(_, _)
StatementNodes(lines, i) ==
    IF i > Len(lines) THEN <<>>
    ELSE (IF strip(lines[i]) # "" /\ ~IsComment(lines[i])
          THEN << Node("Other", 0, FALSE, i, i) >> ELSE <<>>)
         \o StatementNodes(lines, i + 1)

\* A file made of catalog lines: it parses unless it holds the malformed line.
StatementFile(lines) ==
    LET ok == \A i \in 1..Len(lines) : lines[i].text # "def broken(:"
    IN File(<<"proj", "gen.py">>, TRUE, ok, lines,
            IF ok THEN StatementNodes(lines, 1) ELSE <<>>)

\* One documented function holding n if statements one after the other.
BranchesFile(n) ==
    File(<<"proj", "branches.py">>, TRUE, TRUE,
         << Line(0, "def check(x):"), Line(4, "\"\"\"Check.\"\"\"") >>
           \o [k \in 1..n |-> Line(4, "if x: x = 1")],
         << Node("FunctionDef", 0, TRUE, 1, n + 2), Node("Other", 1, FALSE, 2, 2) >>
           \o [k \in 1..n |-> Node("If", 1, FALSE, k + 2, k + 2)])

\* A function of a lines whose body starts with an inner function of b lines
\* (b < a).
LongFile(a, b) ==
    File(<<"proj", "long.py">>, TRUE, TRUE,
         <<>> \o [k \in 1..a |->
            IF k = 1 THEN Line(0, "def run():")
            ELSE IF k = 2 THEN Line(4, "def step():")
            ELSE Line(IF k <= b + 1 THEN 8 ELSE 4, "x = 1")],
         << Node("FunctionDef", 0, FALSE, 1, a), Node("FunctionDef", 1, FALSE, 2, b + 1) >>)

\* tf functions, the first df of them documented, then tc classes, the first
\* dc of them documented; every declaration takes two lines.  The tree holds
\* the declarations alone.
DocFile(df, tf, dc, tc) ==
    File(<<"proj", "docs.py">>, TRUE, TRUE,
         <<>> \o [k \in 1..(2 * (tf + tc)) |->
            IF k % 2 = 1
            THEN Line(0, IF k <= 2 * tf THEN "def f():" ELSE "class K:")
            ELSE Line(4, IF k <= 2 * df \/ (k > 2 * tf /\ k <= 2 * (tf + dc))
                         THEN "\"\"\"Doc.\"\"\"" ELSE "pass")],
         <<>> \o [k \in 1..(tf + tc) |->
            Node(IF k <= tf THEN "FunctionDef" ELSE "ClassDef", 0,
                 k <= df \/ (k > tf /\ k <= tf + dc), 2 * k - 1, 2 * k)])

\* Import statements: the line and the node of each.
ImportStatements ==
    { [text |-> "import os", kind |-> "Import", module |-> "", names |-> <<"os">>],
      [text |-> "import os.path as p, sys", kind |-> "Import", module |-> "",
       names |-> <<"os.path", "sys">>],
      [text |-> "from json import loads, dumps", kind |-> "ImportFrom", module |-> "json",
       names |-> <<"loads", "dumps">>],
      [text |-> "from os import sys", kind |-> "ImportFrom", module |-> "os",
       names |-> <<"sys">>],
      [text |-> "from . import helpers", kind |-> "ImportFrom", module |-> "",
       names |-> <<"helpers">>] }

\* A file made of import statements, at module level or, when `nested`, in
\* the body of a documented function.
ImportsFile(stmts, nested) ==
    LET d == IF nested THEN 2 ELSE 0 IN
    File(<<"proj", "imports.py">>, TRUE, TRUE,
         (IF nested THEN << Line(0, "def load():"), Line(4, "\"\"\"Load.\"\"\"") >> ELSE <<>>)
           \o [k \in 1..Len(stmts) |-> Line(2 * d, stmts[k].text)],
         (IF nested THEN << Node("FunctionDef", 0, TRUE, 1, Len(stmts) + 2),
                            Node("Other", 1, FALSE, 2, 2) >> ELSE <<>>)
           \o [k \in 1..Len(stmts) |->
                 ImportNode(stmts[k].kind, IF nested THEN 1 ELSE 0, k + d,
                            stmts[k].module, stmts[k].names)])

ImportFiles ==
    { ImportsFile(x[1], x[2]) :
        x \in (UNION { [1..n -> ImportStatements] : n \in 1..MaxLines }) \X BOOLEAN }

\* Two functions of two lines each and an async function of three lines;
\* ends[k] tells whether the k-th of them has an end line.
FunctionsFile(ends) ==
    File(<<"proj", "functions.py">>, TRUE, TRUE,
         << Line(0, "def first():"), Line(4, "return 1"),
            Line(0, "def second():"), Line(4, "return 2"),
            Line(0, "async def third():"), Line(4, "x = 1"), Line(4, "return x") >>,
         << Node("FunctionDef", 0, FALSE, 1, IF ends[1] THEN 2 ELSE 0),
            Node("FunctionDef", 0, FALSE, 3, IF ends[2] THEN 4 ELSE 0),
            Node("AsyncFunctionDef", 0, FALSE, 5, IF ends[3] THEN 7 ELSE 0) >>)

FunctionFiles == { FunctionsFile(ends) : ends \in [1..3 -> BOOLEAN] }

\* Files whose metrics lie at, just below and just above the thresholds.
ThresholdFiles ==
    { DeepSystemFile } \cup { BranchesFile(n) : n \in 9..11 }
      \cup { LongFile(51, 49), LongFile(50, 49), LongFile(51, 50) }
      \cup { DocFile(1, 2, 0, 0), DocFile(1, 3, 7, 10), DocFile(2, 3, 2, 3),
             DocFile(0, 0, 3, 4), DocFile(2, 2, 1, 1) }

\* open(file_path) or f.read() raises: the except branch returns.
analyze_file_unreadable ==
    /\ af_pc = "called"
    /\ ~af_file.readable
    /\ af_result' = analyze_file(af_file)
    /\ af_pc' = "returned"
    /\ UNCHANGED <<af_file, visitVars, secVars, cmdVars, dbVars>>

\* The content is read and ast.parse raises an exception that is not caught.
analyze_file_raises ==
    /\ af_pc = "called"
    /\ Propagates(af_file)
    /\ af_pc' = "raised"
    /\ UNCHANGED <<af_file, af_result, visitVars, secVars, cmdVars, dbVars>>

\* The content is read and the four analyzers run.
analyze_file_readable ==
    /\ af_pc = "called"
    /\ af_file.readable
    /\ ~Propagates(af_file)
    /\ af_result' = analyze_file(af_file)
    /\ af_pc' = "returned"
    /\ UNCHANGED <<af_file, visitVars, secVars, cmdVars, dbVars>>

InitFile ==
    /\ af_file \in SampleFiles \cup ThresholdFiles \cup ImportFiles \cup FunctionFiles
                \cup { Unreadable(f) : f \in {ScenarioFile, BrokenFile, ChainFile} } \cup
                { StatementFile(ls) :
                    ls \in UNION { [1..n -> LineCatalog] : n \in 1..MaxLines } }
    /\ af_result = <<>>
    /\ af_pc = "called"
    /\ VisitIdle
    /\ SecIdle
    /\ CmdIdle
    /\ DbIdle

NextFile ==
    \/ analyze_file_unreadable
    \/ analyze_file_raises
    \/ analyze_file_readable

SpecFile == InitFile /\ [][NextFile]_vars

(* Claims about the File Analyzer (checked under SpecFile). *)

OfType(issues, type) == SelectSeq(issues, LAMBDA x : x.type = type)

\* C8: the file with one undocumented function, a for loop holding two
\* nested ifs and an os.system call yields cyclomatic complexity 3, no
\* complexity issue, and three issues in all, among them the function
\* documentation issue (0% < 50%) and a security issue on the os.system line.
C8_Scenario ==
    (af_pc = "returned" /\ af_file = ScenarioFile) =>
      /\ af_result.metrics.complexity.cyclomatic_complexity = 3
      /\ OfType(af_result.issues, "complexity") = <<>>
      /\ Len(af_result.issues) = 3
      /\ \E k \in 1..3 :
           /\ af_result.issues[k].type = "documentation"
           /\ af_result.issues[k].message =
                Msg("Low function documentation coverage: {:.1f}%", <<Frac(0, 1)>>)
      /\ \E k \in 1..3 :
           /\ af_result.issues[k].type = "security"
           /\ af_file.lines[af_result.issues[k].line].text = "os.system(\"rm -rf /tmp/x\")"
           /\ af_result.issues[k].line = 5

C8_Witness ==
    /\ af_pc = "returned"
    /\ af_file = ScenarioFile
    /\ Len(af_result.issues) = 3
    /\ af_result.metrics.complexity.cyclomatic_complexity = 3

Count(seq, P(_)) == Cardinality({ k \in 1..Len(seq) : P(seq[k]) })

\* The number of issues of the result with the given type, severity and
\* message text.
IssueCount(type, severity, text) ==
    Count(af_result.issues, LAMBDA x :
        /\ x.type = type
        /\ "severity" \in DOMAIN x /\ x.severity = severity
        /\ x.message.text = text)

SuggestionCount(suggestion) == Count(af_result.suggestions, LAMBDA x : x = suggestion)

\* C11: for a readable file there is a warning complexity issue exactly when
\* cyclomatic complexity > 10, one exactly when max nesting depth > 4 and an
\* info one exactly when average function length > 50; a metric equal to its
\* threshold gives no issue, there is no other complexity issue, and each
\* issue comes with exactly its one suggestion.
C11_ComplexityIssuesIffAboveThreshold ==
    (af_pc = "returned" /\ af_file.readable) =>
      LET c == af_result.metrics.complexity
          high == IF c.cyclomatic_complexity > 10 THEN 1 ELSE 0
          deep == IF c.max_nesting_depth > 4 THEN 1 ELSE 0
          long == IF c.avg_function_length.num > 50 * c.avg_function_length.den
                  THEN 1 ELSE 0
      IN /\ IssueCount("complexity", "warning", "High cyclomatic complexity: {}") = high
         /\ IssueCount("complexity", "warning", "Deep nesting detected: {} levels") = deep
         /\ IssueCount("complexity", "info", "Long functions detected: avg {:.1f} lines") = long
         /\ Len(OfType(af_result.issues, "complexity")) = high + deep + long
         /\ SuggestionCount("Consider breaking down complex functions into smaller ones") = high
         /\ SuggestionCount("Reduce nesting depth by extracting functions or using early returns") = deep
         /\ SuggestionCount("Consider breaking long functions into smaller, focused functions") = long

\* Functions of 51 and 49 lines: the average equals the threshold and no
\* complexity issue is emitted.
C11_Witness ==
    /\ af_pc = "returned"
    /\ af_file = LongFile(51, 49)
    /\ af_result.metrics.complexity.avg_function_length = Frac(100, 2)
    /\ OfType(af_result.issues, "complexity") = <<>>

C13_ReadFailureResult ==
    (af_pc # "called" /\ ~af_file.readable) =>
      /\ af_pc = "returned"
      /\ af_result.file_path = af_file.path
      /\ Len(af_result.issues) = 1
      /\ af_result.issues[1].type = "error"
      /\ DOMAIN af_result.metrics = {}
      /\ af_result.suggestions = <<>>

\* A file that holds an os.system call and an undocumented function, and
\* cannot be read: the result holds the error issue alone.
C13_Witness ==
    /\ af_pc = "returned"
    /\ af_file = Unreadable(ScenarioFile)
    /\ MatchPairs(af_file.lines) # {}
    /\ Len(af_result.issues) = 1
    /\ af_result.issues[1].message.text = "Cannot read file: {}"

\* C15: for a readable file whose content fails to parse, no exception
\* leaves analyze_file and a result with a full metrics block is returned, in
\* which the six complexity metrics and the documentation metrics are zero.
C15_ParseFailureYieldsZeroMetrics ==
    (af_pc # "called" /\ af_file.readable /\ ~af_file.parses) =>
      /\ af_pc = "returned"
      /\ DOMAIN af_result.metrics = {"complexity", "documentation", "dependencies"}
      /\ af_result.metrics.complexity =
           ComplexityMetrics(0, 0, 0, 0, 0, Frac(0, 1))
      /\ af_result.metrics.documentation =
           DocAnalysis(Frac(0, 1), Frac(0, 1), 0, 0, 0, 0)

\* The modules the import statements of tree t name.
ImportedModules(t) ==
    UNION { Range(t[i].names) : i \in { n \in 1..Len(t) : t[n].kind = "Import" } }
      \cup ({ t[i].module : i \in { n \in 1..Len(t) : t[n].kind = "ImportFrom" } } \ {""})

ResolvedLengths(t) ==
    LET fs == SelectSeq(t, LAMBDA n : n.kind \in FunctionKinds /\ n.end_lineno # 0)
    IN [k \in 1..Len(fs) |-> fs[k].end_lineno - fs[k].lineno + 1]

\* C23: the average function length is 0 exactly when the file has no
\* function or none of its functions has an end line; otherwise it is the
\* mean of endLine - startLine + 1 over the functions with an end line, and
\* at least 1.
C23_AvgFunctionLength ==
    (af_pc = "returned" /\ af_file.readable /\ af_file.parses) =>
      LET c == af_result.metrics.complexity
          avg == c.avg_function_length
          lens == ResolvedLengths(af_file.tree)
      IN /\ avg.den > 0
         /\ avg.num = 0 <=> (c.function_count = 0 \/ Len(lens) = 0)
         /\ Len(lens) > 0 =>
              /\ avg.num * Len(lens) = Sum(lens) * avg.den
              /\ avg.num >= avg.den

\* Three functions, the second without an end line: the mean of 2 and 3.
C23_Witness ==
    /\ af_pc = "returned"
    /\ af_file = FunctionsFile(<<TRUE, FALSE, TRUE>>)
    /\ af_result.metrics.complexity.function_count = 3
    /\ af_result.metrics.complexity.avg_function_length = Frac(5, 2)

\* coverage lies in [0, 100], is 0 when total is 0 and 100 * documented /
\* total otherwise.
IsCoverage(coverage, documented, total) ==
    /\ coverage.den > 0
    /\ 0 <= coverage.num /\ coverage.num <= 100 * coverage.den
    /\ documented >= 0 /\ documented <= total
    /\ IF total = 0 THEN coverage.num = 0
       ELSE coverage.num * total = 100 * documented * coverage.den

\* C24: for every file the function and the class documentation coverage
\* lie in [0, 100], are 0 when the respective total is 0 and 100 *
\* documented / total otherwise, and documented <= total for both.
C24_CoverageRange ==
    (af_pc = "returned" /\ af_file.readable) =>
      LET d == af_result.metrics.documentation IN
      /\ IsCoverage(d.function_docstring_coverage, d.documented_functions, d.total_functions)
      /\ IsCoverage(d.class_docstring_coverage, d.documented_classes, d.total_classes)

\* Two of three functions and two of three classes documented.
C24_Witness ==
    /\ af_pc = "returned"
    /\ af_file = DocFile(2, 3, 2, 3)
    /\ af_result.metrics.documentation.function_docstring_coverage = Frac(200, 3)
    /\ af_result.metrics.documentation.documented_classes = 2
    /\ af_result.metrics.documentation.total_classes = 3

\* The suggestions in the order of the checks that add them.
SuggestionOrder ==
    << "Consider breaking down complex functions into smaller ones",
       "Reduce nesting depth by extracting functions or using early returns",
       "Consider breaking long functions into smaller, focused functions",
       "Add docstrings to functions for better documentation",
       "Add docstrings to classes for better documentation" >>

\* C25: the suggestions of a file hold no string twice and come in the order
\* complexity, nesting, function length, function docs, class docs; security
\* issues add none, so there are as many suggestions as complexity and
\* documentation issues.
C25_SuggestionsDistinctAndOrdered ==
    af_pc = "returned" =>
      LET sg == af_result.suggestions IN
      /\ \A i, j \in 1..Len(sg) : i # j => sg[i] # sg[j]
      /\ sg = SelectSeq(SuggestionOrder, LAMBDA x : x \in Range(sg))
      /\ Len(sg) = Len(SelectSeq(af_result.issues,
                                 LAMBDA x : x.type \in {"complexity", "documentation"}))

\* A function nested five deep with an os.system call: a nesting issue, a
\* security issue and two documentation issues, three suggestions.
C25_Witness ==
    /\ af_pc = "returned"
    /\ Len(OfType(af_result.issues, "security")) = 1
    /\ Len(OfType(af_result.issues, "complexity")) = 1
    /\ af_result.suggestions =
         << "Reduce nesting depth by extracting functions or using early returns",
            "Add docstrings to functions for better documentation",
            "Add docstrings to classes for better documentation" >>

\* C28: the documentation analysis and the complexity visitor count the same
\* declarations: for every file that parses, total_functions equals
\* function_count and total_classes equals class_count, whatever mix of
\* functions, async functions, methods and nested classes the tree holds.
C28_SameDeclarationCounts ==
    (af_pc = "returned" /\ af_file.readable /\ af_file.parses) =>
      /\ af_result.metrics.documentation.total_functions
           = af_result.metrics.complexity.function_count
      /\ af_result.metrics.documentation.total_classes
           = af_result.metrics.complexity.class_count

----------------------------------------------------------------------------
(* The traversal as a state machine. *)

CanEnter == /\ vpc = "visiting"
            /\ cursor < Len(tree)
            /\ tree[cursor + 1].parent = Top(vstack)

Enter(kinds) ==
    /\ CanEnter
    /\ tree[cursor + 1].kind \in kinds
    /\ analyzer' = VisitEnter(analyzer, tree[cursor + 1])
    /\ vstack' = Append(vstack, cursor + 1)
    /\ cursor' = cursor + 1
    /\ UNCHANGED <<tree, vpc>>
    /\ UNCHANGED <<secVars, fileVars, cmdVars, dbVars>>

visit_FunctionDef == Enter({"FunctionDef"})
visit_AsyncFunctionDef == Enter({"AsyncFunctionDef"})
visit_ClassDef == Enter({"ClassDef"})
visit_If == Enter({"If"})
visit_While == Enter({"While"})
visit_For == Enter({"For"})
visit_Try == Enter({"Try"})
visit_ExceptHandler == Enter({"ExceptHandler"})
generic_visit == Enter({"Other"})

\* generic_visit(node) has visited the last child: the handler resumes.
visit_return ==
    /\ vpc = "visiting"
    /\ ~CanEnter
    /\ vstack # <<>>
    /\ analyzer' = VisitLeave(analyzer, tree[Top(vstack)].kind)
    /\ vstack' = SubSeq(vstack, 1, Len(vstack) - 1)
    /\ UNCHANGED <<tree, cursor, vpc>>
    /\ UNCHANGED <<secVars, fileVars, cmdVars, dbVars>>

\* analyzer.visit(tree) returns to analyze_complexity.
visit_done ==
    /\ vpc = "visiting"
    /\ ~CanEnter
    /\ vstack = <<>>
    /\ vpc' = "done"
    /\ UNCHANGED <<tree, cursor, vstack, analyzer>>
    /\ UNCHANGED <<secVars, fileVars, cmdVars, dbVars>>

\* ast.parse(content): the parser hands over the next node of the tree.
ast_parse ==
    /\ vpc = "parsing"
    /\ Len(tree) < MaxNodes
    /\ \E nd \in NodesAt(Len(tree) + 1) :
          /\ MayFollow(tree, nd)
          /\ tree' = Append(tree, nd)
    /\ UNCHANGED <<cursor, vstack, analyzer, vpc>>
    /\ UNCHANGED <<secVars, fileVars, cmdVars, dbVars>>

\* analyzer = ComplexityAnalyzer(); analyzer.visit(tree) starts at the Module.
visit_Module ==
    /\ vpc = "parsing"
    /\ analyzer' = ComplexityAnalyzer_init
    /\ vpc' = "visiting"
    /\ UNCHANGED <<tree, cursor, vstack>>
    /\ UNCHANGED <<secVars, fileVars, cmdVars, dbVars>>

InitVisit ==
    /\ tree = <<>>
    /\ cursor = 0
    /\ vstack = <<>>
    /\ analyzer = ComplexityAnalyzer_init
    /\ vpc = "parsing"
    /\ SecIdle
    /\ FileIdle
    /\ DbIdle
    /\ CmdIdle

NextVisit ==
    \/ ast_parse
    \/ visit_Module
    \/ visit_FunctionDef
    \/ visit_AsyncFunctionDef
    \/ visit_ClassDef
    \/ visit_If
    \/ visit_While
    \/ visit_For
    \/ visit_Try
    \/ visit_ExceptHandler
    \/ generic_visit
    \/ visit_return
    \/ visit_done

SpecVisit == InitVisit /\ [][NextVisit]_vars

----------------------------------------------------------------------------
(* Claims about the Complexity Visitor (checked under SpecVisit). *)

ControlKinds == {"If", "While", "For", "Try", "ExceptHandler"}

DepthKinds == {"FunctionDef", "AsyncFunctionDef", "ClassDef",
               "If", "While", "For", "Try"}

\* Number of control-flow nodes among the first n nodes of t.
ControlNodes(t, n) == Cardinality({ i \in 1..n : t[i].kind \in ControlKinds })

\* Number of function, class, if, while, for and try nodes on the path from
\* the root to node i, inclusive.
RECURSIVE PathDepth(_, _)
PathDepth(t, i) ==
    IF i = 0 THEN 0
    ELSE (IF t[i].kind \in DepthKinds THEN 1 ELSE 0) + PathDepth(t, t[i].parent)

RECURSIVE MaxPathDepth(_, _)
MaxPathDepth(t, n) ==
    IF n = 0 THEN 0 ELSE Max(PathDepth(t, n), MaxPathDepth(t, n - 1))

\* C6: the cyclomatic complexity the visitor returns is the number of if,
\* while, for, try and except-handler nodes of the tree, each counted once
\* at any nesting level (every node is visited); nothing else contributes.
C6_ComplexityCountsControlNodes ==
    /\ vpc = "visiting" => analyzer.complexity = ControlNodes(tree, cursor)
    /\ vpc = "done" => /\ cursor = Len(tree)
                       /\ analyzer.complexity = ControlNodes(tree, Len(tree))

\* An if inside an except handler inside a try, next to an uncounted node:
\* three points.
C6_Witness ==
    /\ vpc = "done"
    /\ Len(tree) = 3
    /\ tree[1].kind = "Try"
    /\ tree[2].kind = "ExceptHandler" /\ tree[2].parent = 1
    /\ tree[3].kind = "If" /\ tree[3].parent = 2
    /\ analyzer.complexity = 3

\* C7: max_nesting_depth is the largest number of function, class, if,
\* while, for and try nodes on a root-to-node path (except handlers add
\* none); the running nesting_depth is the depth of the node being visited,
\* never negative, and 0 when the traversal has finished.
C7_MaxNestingDepth ==
    /\ analyzer.nesting_depth >= 0
    /\ vpc = "visiting" =>
          /\ analyzer.nesting_depth = PathDepth(tree, Top(vstack))
          /\ analyzer.max_nesting_depth = MaxPathDepth(tree, cursor)
    /\ vpc = "done" =>
          /\ analyzer.nesting_depth = 0
          /\ analyzer.max_nesting_depth = MaxPathDepth(tree, Len(tree))

\* try > except handler > if has depth 2, and a later sibling function at
\* the top level does not raise it.
C7_Witness ==
    /\ vpc = "done"
    /\ Len(tree) = 3
    /\ tree[1].kind = "Try"
    /\ tree[2].kind = "ExceptHandler" /\ tree[2].parent = 1
    /\ tree[3].kind = "If" /\ tree[3].parent = 2
    /\ analyzer.max_nesting_depth = 2
    /\ analyzer.nesting_depth = 0

----------------------------------------------------------------------------
(* Discovery: find_python_files. *)

Name(path) == path[Len(path)]

ExcludedFile ==
    File(<<"proj", "build", "gen.py">>, TRUE, TRUE, << Line(0, "x = 1") >>,
         << Node("Other", 0, FALSE, 1, 1) >>)

NotesFile ==
    File(<<"proj", "notes.txt">>, TRUE, FALSE, << Line(0, "def broken(:") >>, <<>>)

\* The files a scanned path may hold.
CommandFiles == SampleFiles \cup {ExcludedFile, NotesFile}

exclude_patterns == <<"__pycache__", ".venv", "venv", ".git", "build", "dist">>

\* `pattern in str(file_path)`: no pattern holds a separator, so a match lies
\* within one component; among the components of the sample paths a pattern
\* only occurs as a whole component.
PatternInPath(pattern, path) == \E k \in 1..Len(path) : path[k] = pattern

\* What directory.rglob("*.py") matches.
MatchesPy(path) == Name(path) # "notes.txt"

find_python_files(listing) ==
    SelectSeq(listing, LAMBDA f :
        /\ MatchesPy(f.path)
        /\ ~\E k \in 1..Len(exclude_patterns) : PatternInPath(exclude_patterns[k], f.path))

----------------------------------------------------------------------------
(* The report renderers. *)

TOOL_NAME == "IOE Static Analyzer"
TOOL_VERSION == "1.0.0"

EmptyDict == [x \in {} |-> x]

\* d.get(k, default)
Get(d, k, default) == IF k \in DOMAIN d THEN d[k] ELSE default

severity_levels == [info |-> 1, warning |-> 2, error |-> 3]

\* severity_levels.get(issue.get('severity', 'info'), 1)
LevelOf(issue) == Get(severity_levels, Get(issue, "severity", "info"), 1)

Keeps(issue, min_severity) == LevelOf(issue) >= severity_levels[min_severity]

FilterIssues(issues, min_severity) ==
    SelectSeq(issues, LAMBDA issue : Keeps(issue, min_severity))

RECURSIVE SumLen(_, _)
SumLen(seqs, i) == IF i > Len(seqs) THEN 0 ELSE Len(seqs[i]) + SumLen(seqs, i + 1)

\* Mutant: the suggestions of a file are dropped with its last issue.
JsonFileData_SuggestionsFiltered(r, min_severity) ==
    [path |-> r.file_path, issues |-> FilterIssues(r.issues, min_severity),
     metrics |-> r.metrics,
     suggestions |-> IF FilterIssues(r.issues, min_severity) = <<>>
                     THEN <<>> ELSE r.suggestions]

JsonFileData(r, min_severity) ==
    [path |-> r.file_path, issues |-> FilterIssues(r.issues, min_severity),
     metrics |-> r.metrics, suggestions |-> r.suggestions]

\* The timestamp of the metadata block is left out.
generate_json_report(rs, min_severity) ==
    [metadata |-> [tool |-> TOOL_NAME, version |-> TOOL_VERSION,
                   min_severity |-> min_severity],
     summary |->
       [total_files |-> Len(rs),
        total_issues |->
          SumLen([i \in 1..Len(rs) |-> FilterIssues(rs[i].issues, min_severity)], 1),
        total_suggestions |-> SumLen([i \in 1..Len(rs) |-> rs[i].suggestions], 1)],
     files |-> [i \in 1..Len(rs) |-> JsonFileData(rs[i], min_severity)]]

SummaryRow(r, min_severity) ==
    [name |-> Name(r.file_path),
     issues |-> Len(FilterIssues(r.issues, min_severity)),
     complexity |-> Get(Get(r.metrics, "complexity", EmptyDict), "cyclomatic_complexity", 0),
     loc |-> Get(Get(r.metrics, "complexity", EmptyDict), "lines_of_code", 0),
     doc_coverage |-> Get(Get(r.metrics, "documentation", EmptyDict),
                          "function_docstring_coverage", Frac(0, 1))]

styles == [info |-> "cyan", warning |-> "yellow", error |-> "red"]

\* severity.upper()
upper(severity) ==
    CASE severity = "info" -> "INFO"
      [] severity = "warning" -> "WARNING"
      [] severity = "error" -> "ERROR"
      [] severity = "high" -> "HIGH"

\* for issue in file_issues, from the k-th on: the lines printed, and whether
\* the style lookup raised KeyError (which ends the report).
RECURSIVE PrintIssues(_, _)
PrintIssues(issues, k) ==
    IF k > Len(issues) THEN [printed |-> <<>>, raised |-> FALSE]
    ELSE LET issue == issues[k]
             severity == Get(issue, "severity", "info")
         IN IF severity \notin DOMAIN styles
            THEN [printed |-> <<>>, raised |-> TRUE]
            ELSE LET rest == PrintIssues(issues, k + 1)
                     ln == [severity |-> upper(severity),
                            type |-> Get(issue, "type", "unknown"),
                            line |-> Get(issue, "line", 0),
                            message |-> Get(issue, "message", Msg("No message", <<>>)),
                            style |-> styles[severity]]
                 IN [printed |-> <<ln>> \o rest.printed, raised |-> rest.raised]

\* for result in results, from the i-th on: one section per result reached
\* (`header`: the file name was printed).
RECURSIVE PrintFiles(_, _, _)
PrintFiles(rs, i, min_severity) ==
    IF i > Len(rs) THEN [sections |-> <<>>, raised |-> FALSE]
    ELSE LET file_issues == FilterIssues(rs[i].issues, min_severity)
             p == PrintIssues(file_issues, 1)
             section == [name |-> Name(rs[i].file_path), header |-> file_issues # <<>>,
                         printed |-> p.printed]
         IN IF p.raised THEN [sections |-> <<section>>, raised |-> TRUE]
            ELSE LET rest == PrintFiles(rs, i + 1, min_severity)
                 IN [sections |-> <<section>> \o rest.sections, raised |-> rest.raised]

\* Remove duplicates while preserving order.
RECURSIVE Unique(_, _)
Unique(seq, acc) ==
    IF seq = <<>> THEN acc
    ELSE Unique(SubSeq(seq, 2, Len(seq)),
                IF \E k \in 1..Len(acc) : acc[k] = seq[1] THEN acc ELSE Append(acc, seq[1]))

RECURSIVE Concat(_, _)
Concat(seqs, i) == IF i > Len(seqs) THEN <<>> ELSE seqs[i] \o Concat(seqs, i + 1)

generate_text_report(rs, min_severity) ==
    LET rows == [i \in 1..Len(rs) |-> SummaryRow(rs[i], min_severity)]
        total_issues ==
          SumLen([i \in 1..Len(rs) |-> FilterIssues(rs[i].issues, min_severity)], 1)
        total_suggestions == SumLen([i \in 1..Len(rs) |-> rs[i].suggestions], 1)
        detail == IF total_issues > 0 THEN PrintFiles(rs, 1, min_severity)
                  ELSE [sections |-> <<>>, raised |-> FALSE]
        listed == ~detail.raised /\ total_suggestions > 0
    IN [rows |-> rows, total_issues |-> total_issues,
        total_suggestions |-> total_suggestions,
        sections |-> detail.sections,
        suggestions_shown |-> listed,
        suggestions |-> IF listed
                        THEN Unique(Concat([i \in 1..Len(rs) |-> rs[i].suggestions], 1), <<>>)
                        ELSE <<>>,
        raised |-> detail.raised]

\* for issue in result.issues
HtmlIssues(r, min_severity) == r.issues

generate_html_report(rs, min_severity) ==
    [total_files |-> Len(rs), min_severity |-> min_severity,
     files |-> [i \in 1..Len(rs) |->
        [name |-> Name(rs[i].file_path),
         issues |-> LET shown == HtmlIssues(rs[i], min_severity) IN
                    [k \in 1..Len(shown) |->
                       [class |-> Get(shown[k], "severity", "info"),
                        message |-> Get(shown[k], "message", Msg("No message", <<>>))]]]]]

----------------------------------------------------------------------------
(* The `analyze` command. *)

Outputs == {"text", "json", "html"}
Severities == {"info", "warning", "error"}

\* Sequences of distinct files, MaxFiles at most.
Listings ==
    { l \in UNION { [1..n -> CommandFiles] : n \in 0..MaxFiles } :
        \A i, j \in 1..Len(l) : i # j => l[i] # l[j] }

Init ==
    /\ root \in { [is_file |-> FALSE, listing |-> l] : l \in Listings }
           \cup { [is_file |-> TRUE, listing |-> <<f>>] : f \in CommandFiles }
    /\ args \in [output : Outputs, min_severity : Severities,
                 report_file : {"", "report.out"}]
    /\ disk_ok \in BOOLEAN
    /\ files_to_analyze = <<>>
    /\ results = <<>>
    /\ report = NoReport
    /\ messages = <<>>
    /\ exit_code = 0
    /\ pc = "start"
    /\ VisitIdle
    /\ SecIdle
    /\ FileIdle
    /\ DbIdle

Discovered ==
    IF root.is_file THEN root.listing ELSE find_python_files(root.listing)

\* Mutant: an empty discovery ends the command without a word.
analyze_no_files_Silent ==
    /\ pc = "start"
    /\ Discovered = <<>>
    /\ pc' = "done"
    /\ UNCHANGED <<root, args, disk_ok, files_to_analyze, results, report, messages, exit_code>>
    /\ UNCHANGED <<visitVars, secVars, fileVars, dbVars>>

\* path_obj.is_file() ... if not files_to_analyze: print and return
analyze_no_files ==
    /\ pc = "start"
    /\ Discovered = <<>>
    /\ messages' = Append(messages, "No Python files found")
    /\ pc' = "done"
    /\ UNCHANGED <<root, args, disk_ok, files_to_analyze, results, report, exit_code>>
    /\ UNCHANGED <<visitVars, secVars, fileVars, dbVars>>

analyze_find_files ==
    /\ pc = "start"
    /\ Discovered # <<>>
    /\ files_to_analyze' = Discovered
    /\ pc' = "analyzing"
    /\ UNCHANGED <<root, args, disk_ok, results, report, messages, exit_code>>
    /\ UNCHANGED <<visitVars, secVars, fileVars, dbVars>>

\* except Exception as e: print, sys.exit(1)
Fails ==
    /\ messages' = Append(messages, "Error during analysis")
    /\ exit_code' = 1

\* One iteration of `for file_path in files_to_analyze`; an exception that
\* leaves analyze_file ends the command in its except clause.
analyze_next_file ==
    /\ pc = "analyzing"
    /\ Len(results) < Len(files_to_analyze)
    /\ LET file_path == files_to_analyze[Len(results) + 1] IN
       IF Propagates(file_path)
       THEN /\ Fails
            /\ pc' = "done"
            /\ UNCHANGED results
       ELSE /\ results' = Append(results, analyze_file(file_path))
            /\ UNCHANGED <<messages, exit_code, pc>>
    /\ UNCHANGED <<root, args, disk_ok, files_to_analyze, report>>
    /\ UNCHANGED <<visitVars, secVars, fileVars, dbVars>>

Rendering(output) ==
    /\ pc = "analyzing"
    /\ Len(results) = Len(files_to_analyze)
    /\ args.output = output

\* output == 'text': the report goes to the console; a KeyError raised while
\* the issues are listed ends the command.
analyze_text ==
    /\ Rendering("text")
    /\ LET text == generate_text_report(results, args.min_severity) IN
       /\ report' = [kind |-> "text", dest |-> "stdout", text |-> text]
       /\ IF text.raised THEN Fails ELSE UNCHANGED <<messages, exit_code>>
    /\ pc' = "done"
    /\ UNCHANGED <<root, args, disk_ok, files_to_analyze, results>>
    /\ UNCHANGED <<visitVars, secVars, fileVars, dbVars>>

analyze_json ==
    /\ Rendering("json")
    /\ LET report_data == generate_json_report(results, args.min_severity) IN
       IF args.report_file # ""
       THEN IF disk_ok
            THEN /\ report' = [kind |-> "json", dest |-> args.report_file, data |-> report_data]
                 /\ messages' = Append(messages, "Report saved")
                 /\ UNCHANGED exit_code
            ELSE Fails /\ UNCHANGED report
       ELSE /\ report' = [kind |-> "json", dest |-> "stdout", data |-> report_data]
            /\ UNCHANGED <<messages, exit_code>>
    /\ pc' = "done"
    /\ UNCHANGED <<root, args, disk_ok, files_to_analyze, results>>
    /\ UNCHANGED <<visitVars, secVars, fileVars, dbVars>>

analyze_html ==
    /\ Rendering("html")
    /\ LET report_file == IF args.report_file = "" THEN "analysis_report.html"
                          ELSE args.report_file
       IN IF disk_ok
          THEN /\ report' = [kind |-> "html", dest |-> report_file,
                             html |-> generate_html_report(results, args.min_severity)]
               /\ messages' = Append(messages, "HTML report saved")
               /\ UNCHANGED exit_code
          ELSE Fails /\ UNCHANGED report
    /\ pc' = "done"
    /\ UNCHANGED <<root, args, disk_ok, files_to_analyze, results>>
    /\ UNCHANGED <<visitVars, secVars, fileVars, dbVars>>

Next ==
    \/ analyze_no_files
    \/ analyze_find_files
    \/ analyze_next_file
    \/ analyze_text
    \/ analyze_json
    \/ analyze_html

Spec == Init /\ [][Next]_vars

----------------------------------------------------------------------------
(* The complexity command.  It uses the command's variables: `results`     *)
(* holds the rows added to the table, `report` the running totals and, at  *)
(* the end, what is printed.                                                *)

Totals(c, loc, f, cl) ==
    [total_complexity |-> c, total_loc |-> loc, total_functions |-> f,
     total_classes |-> cl]

\* The files a path given to the complexity command may hold: the sample
\* files and three files of 9, 16 and 32 branches.
ComplexityFiles ==
    CommandFiles \cup { [BranchesFile(9) EXCEPT !.path = <<"proj", "branches9.py">>],
                        [BranchesFile(16) EXCEPT !.path = <<"proj", "branches16.py">>],
                        [BranchesFile(32) EXCEPT !.path = <<"proj", "branches32.py">>] }

ComplexityListings ==
    { l \in UNION { [1..n -> ComplexityFiles] : n \in 0..MaxFiles } :
        \A i, j \in 1..Len(l) : i # j => l[i] # l[j] }

InitComplexity ==
    /\ root \in { [is_file |-> FALSE, listing |-> l] : l \in ComplexityListings }
           \cup { [is_file |-> TRUE, listing |-> <<f>>] : f \in ComplexityFiles }
    /\ args = <<>>
    /\ disk_ok = TRUE
    /\ files_to_analyze = <<>>
    /\ results = <<>>
    /\ report = NoReport
    /\ messages = <<>>
    /\ exit_code = 0
    /\ pc = "cx_start"
    /\ VisitIdle
    /\ SecIdle
    /\ FileIdle
    /\ DbIdle

\* if not files_to_analyze: print and return
complexity_no_files ==
    /\ pc = "cx_start"
    /\ Discovered = <<>>
    /\ messages' = Append(messages, "No Python files found")
    /\ pc' = "cx_done"
    /\ UNCHANGED <<root, args, disk_ok, files_to_analyze, results, report, exit_code>>
    /\ UNCHANGED <<visitVars, secVars, fileVars, dbVars>>

\* The table is created and the totals start at zero.
complexity_find_files ==
    /\ pc = "cx_start"
    /\ Discovered # <<>>
    /\ files_to_analyze' = Discovered
    /\ report' = [kind |-> "totals", totals |-> Totals(0, 0, 0, 0)]
    /\ pc' = "cx_analyzing"
    /\ UNCHANGED <<root, args, disk_ok, results, messages, exit_code>>
    /\ UNCHANGED <<visitVars, secVars, fileVars, dbVars>>

\* if cyclomatic_complexity > 20: red, elif > 10: yellow
complexity_style(cyclomatic_complexity) ==
    IF cyclomatic_complexity > 20 THEN "red"
    ELSE IF cyclomatic_complexity > 10 THEN "yellow" ELSE "green"

\* One iteration of the loop: a row with the file's metrics, added to the
\* totals, or an Error row when reading or analyzing the file raises.
complexity_next_file ==
    /\ pc = "cx_analyzing"
    /\ Len(results) < Len(files_to_analyze)
    /\ LET file_path == files_to_analyze[Len(results) + 1] IN
       IF ~file_path.readable \/ Propagates(file_path)
       THEN /\ results' = Append(results, [name |-> Name(file_path.path), error |-> TRUE,
                                           style |-> "red"])
            /\ UNCHANGED report
       ELSE LET m == analyze_complexity(file_path)
                t == report.totals
            IN /\ results' = Append(results,
                     [name |-> Name(file_path.path), error |-> FALSE,
                      complexity |-> m.cyclomatic_complexity, loc |-> m.lines_of_code,
                      functions |-> m.function_count, classes |-> m.class_count,
                      max_depth |-> m.max_nesting_depth,
                      style |-> complexity_style(m.cyclomatic_complexity)])
               /\ report' = [report EXCEPT !.totals =
                     Totals(t.total_complexity + m.cyclomatic_complexity,
                            t.total_loc + m.lines_of_code,
                            t.total_functions + m.function_count,
                            t.total_classes + m.class_count)]
    /\ UNCHANGED <<root, args, disk_ok, files_to_analyze, messages, exit_code, pc>>
    /\ UNCHANGED <<visitVars, secVars, fileVars, dbVars>>

\* avg_complexity = total_complexity / len(files_to_analyze)
Recommendation(total_complexity, files) ==
    LET avg_complexity == IF files > 0 THEN Frac(total_complexity, files) ELSE Frac(0, 1)
    IN IF FracGT(avg_complexity, 15) THEN "high"
       ELSE IF FracGT(avg_complexity, 8) THEN "moderate" ELSE "good"

\* The totals row is added, the table and the recommendation are printed.
complexity_report ==
    /\ pc = "cx_analyzing"
    /\ Len(results) = Len(files_to_analyze)
    /\ report' = [kind |-> "complexity", dest |-> "stdout", rows |-> results,
                  totals |-> report.totals,
                  recommendation |->
                    Recommendation(report.totals.total_complexity, Len(files_to_analyze))]
    /\ pc' = "cx_done"
    /\ UNCHANGED <<root, args, disk_ok, files_to_analyze, results, messages, exit_code>>
    /\ UNCHANGED <<visitVars, secVars, fileVars, dbVars>>

NextComplexity ==
    \/ complexity_no_files
    \/ complexity_find_files
    \/ complexity_next_file
    \/ complexity_report

SpecComplexity == InitComplexity /\ [][NextComplexity]_vars

\* Either command, run on a path.
InitCommands == Init \/ InitComplexity

NextCommands == Next \/ NextComplexity

SpecCommands == InitCommands /\ [][NextCommands]_vars

----------------------------------------------------------------------------
(* One process that calls analyze_file again and again, in one scan after  *)
(* another: `files_to_analyze` and `results` hold the files and the        *)
(* results of all the calls so far, `report` where the scans ended.        *)

JsonImportsFile ==
    ImportsFile(<< CHOOSE x \in ImportStatements : x.module = "json" >>, FALSE)

RepeatFiles ==
    {CleanFile, ScenarioFile, LiteralFile, BrokenFile, UnreadableFile, JsonImportsFile}

InitRepeat ==
    /\ root = <<>>
    /\ args = <<>>
    /\ disk_ok = TRUE
    /\ files_to_analyze = <<>>
    /\ results = <<>>
    /\ report = [kind |-> "scans", ended |-> {}]
    /\ messages = <<>>
    /\ exit_code = 0
    /\ pc = "rp_scanning"
    /\ VisitIdle
    /\ SecIdle
    /\ FileIdle
    /\ DbIdle

\* result = analyze_file(file_path); results.append(result)
repeat_analyze_file ==
    /\ pc = "rp_scanning"
    /\ Len(results) < MaxCalls
    /\ \E f \in RepeatFiles :
         /\ files_to_analyze' = Append(files_to_analyze, f)
         /\ results' = Append(results, analyze_file(f))
    /\ UNCHANGED <<root, args, disk_ok, report, messages, exit_code, pc>>
    /\ UNCHANGED <<visitVars, secVars, fileVars, dbVars>>

\* The scan ends; the calls that follow belong to the next scan.
repeat_next_scan ==
    /\ pc = "rp_scanning"
    /\ results # <<>>
    /\ Len(results) \notin report.ended
    /\ report' = [report EXCEPT !.ended = @ \cup {Len(results)}]
    /\ UNCHANGED <<root, args, disk_ok, files_to_analyze, results, messages, exit_code, pc>>
    /\ UNCHANGED <<visitVars, secVars, fileVars, dbVars>>

NextRepeat == repeat_analyze_file \/ repeat_next_scan

SpecRepeat == InitRepeat /\ [][NextRepeat]_vars

NamedSeverities == {"info", "warning", "error"}

\* The severity rank the renderer's contract names: info=1, warning=2, error=3.
Rank(severity) ==
    CASE severity = "info" -> 1 [] severity = "warning" -> 2 [] severity = "error" -> 3

\* An issue that carries no severity counts as an info issue.
SeverityOf(issue) == IF "severity" \in DOMAIN issue THEN issue.severity ELSE "info"

HasNamedSeverity(issue) == SeverityOf(issue) \in NamedSeverities

Brief(issue) == [type |-> issue.type, message |-> issue.message]

BriefAll(issues) == [k \in 1..Len(issues) |-> Brief(issues[k])]

\* The issues of results[i] that carry one of the three named severities and
\* rank at or above the threshold, in their original order.
ExpectedIssues(i) ==
    BriefAll(SelectSeq(results[i].issues, LAMBDA x :
        HasNamedSeverity(x) /\ Rank(SeverityOf(x)) >= Rank(args.min_severity)))

\* The issues with a named severity the report shows for results[i].
ReportedIssues(i) ==
    IF report.kind = "json"
    THEN BriefAll(SelectSeq(report.data.files[i].issues, HasNamedSeverity))
    ELSE IF i <= Len(report.text.sections)
         THEN BriefAll(report.text.sections[i].printed)
         ELSE <<>>

\* C1: under every threshold the text and the JSON report show, for each
\* file, exactly its issues whose severity rank is at or above the
\* threshold's, in their original order.
C1_ReportedIssuesAreTheFiltered ==
    (pc = "done" /\ report.kind \in {"text", "json"}) =>
      \A i \in 1..Len(results) : ReportedIssues(i) = ExpectedIssues(i)

RECURSIVE CountSecurity(_, _)
CountSecurity(rs, i) ==
    IF i > Len(rs) THEN 0
    ELSE Len(OfType(rs[i].issues, "security")) + CountSecurity(rs, i + 1)

\* C2: under every threshold every security issue is kept by the filter: it
\* is among the issues reported for its file and is counted in the per-file
\* count and in total_issues.
C2_SecurityIssuesAlwaysKept ==
    /\ (pc = "done" /\ report.kind = "json") =>
         /\ \A i \in 1..Len(results) :
              OfType(report.data.files[i].issues, "security")
                = OfType(results[i].issues, "security")
         /\ report.data.summary.total_issues >= CountSecurity(results, 1)
    /\ (pc = "done" /\ report.kind = "text") =>
         /\ \A i \in 1..Len(results) :
              report.text.rows[i].issues >= Len(OfType(results[i].issues, "security"))
         /\ report.text.total_issues >= CountSecurity(results, 1)

\* C3: when every file under the path is readable (and the report can be
\* written), the command ends with exit status zero whatever was found, and
\* the report of the requested format is rendered completely.
C3_ExitZeroWhateverIsFound ==
    (/\ pc = "done"
     /\ disk_ok
     /\ \A k \in 1..Len(root.listing) : root.listing[k].readable) =>
      /\ exit_code = 0
      /\ files_to_analyze # <<>> =>
           /\ report.kind = args.output
           /\ report.kind = "text" => ~report.text.raised

\* C4: the threshold never changes metrics or suggestions: each file of the
\* JSON report carries the metrics and the suggestions of its AnalysisResult,
\* and total_suggestions, in the JSON and in the text report, is the sum of
\* the lengths of all suggestion lists.
C4_MetricsAndSuggestionsUnfiltered ==
    /\ (pc = "done" /\ report.kind = "json") =>
         /\ Len(report.data.files) = Len(results)
         /\ \A i \in 1..Len(results) :
              /\ report.data.files[i].metrics = results[i].metrics
              /\ report.data.files[i].suggestions = results[i].suggestions
         /\ report.data.summary.total_suggestions =
              Sum([i \in 1..Len(results) |-> Len(results[i].suggestions)])
    /\ (pc = "done" /\ report.kind = "text") =>
         report.text.total_suggestions =
           Sum([i \in 1..Len(results) |-> Len(results[i].suggestions)])

\* A JSON report under the error threshold: a file has lost all its issues
\* and kept its metrics and its suggestions.
C4_Witness ==
    /\ pc = "done"
    /\ report.kind = "json"
    /\ args.min_severity = "error"
    /\ \E i \in 1..Len(results) :
         /\ results[i].issues # <<>>
         /\ report.data.files[i].issues = <<>>
         /\ report.data.files[i].suggestions # <<>>
         /\ report.data.files[i].metrics.complexity.max_nesting_depth = 5
    /\ report.data.summary.total_suggestions > 0

\* C5: the HTML report lists, for each file, the messages of the issues the
\* JSON report lists for it under the same threshold.
C5_HtmlListsTheFilteredIssues ==
    (pc = "done" /\ report.kind = "html") =>
      \A i \in 1..Len(results) :
        { x.message : x \in Range(report.html.files[i].issues) }
          = { x.message :
                x \in Range(generate_json_report(results, args.min_severity).files[i].issues) }

ReadFailed(r) == DOMAIN r.metrics = {}

\* C14: the issue of an unreadable file has error severity and is kept under
\* every threshold: the file is reported with exactly one issue in the text
\* and in the JSON report.
C14_ReadFailureAlwaysReported ==
    /\ pc = "done" =>
         \A i \in 1..Len(results) :
           ReadFailed(results[i]) =>
             /\ "severity" \in DOMAIN results[i].issues[1]
             /\ results[i].issues[1].severity = "error"
    /\ (pc = "done" /\ report.kind = "json") =>
         \A i \in 1..Len(results) :
           ReadFailed(results[i]) => Len(report.data.files[i].issues) = 1
    /\ (pc = "done" /\ report.kind = "text") =>
         \A i \in 1..Len(results) :
           ReadFailed(results[i]) => report.text.rows[i].issues = 1

\* C16: a scan yields one result per discovered file, in discovery order,
\* whichever files are unreadable or fail to parse: results is as long as
\* the file list, its i-th entry has the i-th file's path, and the report
\* lists the files in that order.
C16_OneResultPerFile ==
    (pc = "done" /\ files_to_analyze # <<>>) =>
      /\ Len(results) = Len(files_to_analyze)
      /\ \A i \in 1..Len(results) : results[i].file_path = files_to_analyze[i].path
      /\ report.kind = "json" =>
           /\ Len(report.data.files) = Len(files_to_analyze)
           /\ \A i \in 1..Len(files_to_analyze) :
                report.data.files[i].path = files_to_analyze[i].path
      /\ report.kind = "text" =>
           /\ Len(report.text.rows) = Len(files_to_analyze)
           /\ \A i \in 1..Len(files_to_analyze) :
                report.text.rows[i].name = Name(files_to_analyze[i].path)
      /\ report.kind = "html" =>
           /\ Len(report.html.files) = Len(files_to_analyze)
           /\ \A i \in 1..Len(files_to_analyze) :
                report.html.files[i].name = Name(files_to_analyze[i].path)

ExcludedDirectoryNames == {"__pycache__", ".venv", "venv", ".git", "build", "dist"}

UnderExcludedDirectory(path) ==
    \E k \in 1..(Len(path) - 1) : path[k] \in ExcludedDirectoryNames

\* An exclusion substring occurs in the path (in the sample paths, as one of
\* its components).
HasExclusionSubstring(path) ==
    \E k \in 1..Len(path) : path[k] \in ExcludedDirectoryNames

\* C17: whether the root is a directory or a single file, no file located
\* under an excluded directory name is among the files analyzed or in the
\* results.
C17_ExcludedNeverScanned ==
    /\ \A i \in 1..Len(files_to_analyze) :
         ~UnderExcludedDirectory(files_to_analyze[i].path)
    /\ \A i \in 1..Len(results) : ~UnderExcludedDirectory(results[i].file_path)

\* The files the discovery rule makes eligible.
Eligible ==
    IF root.is_file
    THEN { f \in Range(root.listing) : MatchesPy(f.path) }
    ELSE { f \in Range(root.listing) :
             MatchesPy(f.path) /\ ~HasExclusionSubstring(f.path) }

\* C18: the files analyzed are exactly the eligible files: under a directory
\* root the files with the source extension and no exclusion substring in
\* their path, for a single-file root that file alone and only if it has the
\* source extension.
C18_AnalyzedAreTheEligible ==
    pc \in {"analyzing", "done"} => Range(files_to_analyze) = Eligible

\* C19: a scan that discovers no file ends in the "no files found" outcome
\* without throwing: no file is analyzed, no report of any format is
\* produced anywhere, the message is emitted and the command ends normally;
\* the message is emitted in no other case.
C19_NoFilesOutcome ==
    pc \in {"done", "cx_done"} =>
      /\ Discovered = <<>> =>
           /\ files_to_analyze = <<>>
           /\ results = <<>>
           /\ report = NoReport
           /\ messages = <<"No Python files found">>
           /\ exit_code = 0
      /\ Discovered # <<>> => \A k \in 1..Len(messages) : messages[k] # "No Python files found"

\* The analyze command over a directory that holds files, none of them
\* eligible.
C19_Witness ==
    /\ pc = "done"
    /\ ~root.is_file
    /\ root.listing # <<>>
    /\ Discovered = <<>>
    /\ args.output = "html"
    /\ messages = <<"No Python files found">>
    /\ report = NoReport

\* The modules imported by the first i files of the scan.
ModulesUpTo(i) ==
    UNION { results[k].metrics.dependencies.imports :
              k \in { j \in 1..i : ~ReadFailed(results[j]) } }

\* C20: total_modules is a running count over the scan: the value reported
\* for the i-th file is the number of distinct modules imported by the first
\* i files together, so it never decreases along the files and the last
\* file's value counts the union of all import sets.
C20_TotalModulesIsRunningCount ==
    \A i \in 1..Len(results) :
      ~ReadFailed(results[i]) =>
        /\ results[i].metrics.dependencies.total_modules = Cardinality(ModulesUpTo(i))
        /\ \A k \in 1..i :
             ~ReadFailed(results[k]) =>
               results[k].metrics.dependencies.total_modules
                 <= results[i].metrics.dependencies.total_modules

\* C26: the report goes to the file named by --report-file when the option
\* is given, for every format; without it the text and the JSON report go
\* to stdout and the HTML report to analysis_report.html; no report is
\* dropped silently: when none is produced the exit status is not zero.
C26_ReportDestination ==
    (pc = "done" /\ files_to_analyze # <<>>) =>
      IF report = NoReport
      THEN exit_code # 0
      ELSE /\ report.kind = args.output
           /\ report.dest =
                IF args.report_file # "" THEN args.report_file
                ELSE IF args.output = "html" THEN "analysis_report.html" ELSE "stdout"

\* The rows of the complexity table that show metrics.
MetricRows == SelectSeq(report.rows, LAMBDA r : ~r.error)

\* C27: in the complexity command the totals row holds the sums of the
\* complexity, LOC, function and class counts of the files shown with
\* metrics, and the recommendation is "high" iff the average complexity of
\* those files is > 15, "moderate" iff it is > 8 and <= 15, "good"
\* otherwise, the average being the total complexity divided by the number
\* of files that contributed to it.
C27_TotalsAndRecommendation ==
    (pc = "cx_done" /\ report.kind = "complexity") =>
      LET rows == MetricRows
          n == Len(rows)
          total == Sum([k \in 1..n |-> rows[k].complexity])
      IN /\ report.totals.total_complexity = total
         /\ report.totals.total_loc = Sum([k \in 1..n |-> rows[k].loc])
         /\ report.totals.total_functions = Sum([k \in 1..n |-> rows[k].functions])
         /\ report.totals.total_classes = Sum([k \in 1..n |-> rows[k].classes])
         /\ report.recommendation =
              IF total > 15 * n THEN "high"
              ELSE IF total > 8 * n THEN "moderate" ELSE "good"

----------------------------------------------------------------------------
(* The in-memory Database (modules/database.py): the user table and the    *)
(* calls that change it.  A record of a table is a dictionary, modelled as *)
(* a function from its keys; the clock `now` stands for datetime.now().    *)

\* dict.update(other): the keys of `other` are added or overwritten
Updated(dict, other) ==
    [key \in DOMAIN dict \cup DOMAIN other |->
        IF key \in DOMAIN other THEN other[key] ELSE dict[key]]

\* `ch in text`, for the e-mail addresses of the model
Contains(text, ch) ==
    CASE ch = "@" -> text \in {"ann@ioe.vn", "bob@ioe.vn", "eve@ioe"}
      [] ch = "." -> text \in {"ann@ioe.vn", "bob@ioe.vn", "eve.ioe.vn"}

\* The dictionaries a caller passes to create_user.
UserData ==
    { [name |-> "ann", email |-> "ann@ioe.vn"],
      [name |-> "bob", email |-> "bob@ioe.vn", id |-> 1],
      [name |-> "eve"],
      [name |-> "", email |-> "eve@ioe.vn"],
      [name |-> "eve", email |-> ""],
      [name |-> "eve", email |-> "eve@ioe"],
      [name |-> "eve", email |-> "eve.ioe.vn"] }

\* The dictionaries a caller passes to update_user.
UpdateData ==
    { [name |-> "zoe"],
      [email |-> "ann@ioe.vn"],
      [id |-> 1],
      [k \in {} |-> ""] }

\* Database.__init__ (default configuration)
InitDatabase ==
    /\ is_connected = FALSE
    /\ data = [users |-> <<>>, sessions |-> <<>>, logs |-> <<>>]
    /\ stats = [queries_executed |-> 0, records_created |-> 0,
                records_updated |-> 0, records_deleted |-> 0,
                connection_time |-> -1]      \* -1: None
    /\ now = 0
    /\ db_return = [op |-> "none"]
    /\ VisitIdle
    /\ SecIdle
    /\ FileIdle
    /\ CmdIdle

\* db_return is [op, value, raised]: the call, what it returned or the
\* message of what it raised, and the exception ("": it returned).

\* Database._validate_user_data: the message of the DatabaseValidationError
\* it raises, "" when it returns.  user_data is a dictionary here.
validate_user_data(user_data) ==
    LET Missing(field) ==
            field \notin DOMAIN user_data \/ user_data[field] = ""
    IN  IF Missing("name") THEN "Missing required field: name"
        ELSE IF Missing("email") THEN "Missing required field: email"
        ELSE IF ~Contains(user_data.email, "@")
                \/ ~Contains(user_data.email, ".")
             THEN "Invalid email format"
        ELSE IF \E k \in 1..Len(data.users) :
                   Get(data.users[k], "email", "") = user_data.email
             THEN "Email already exists"
        ELSE ""

\* The first record of the table whose id is user_id (0: none).
FirstWithId(users, user_id) ==
    IF \E k \in 1..Len(users) : Get(users[k], "id", 0) = user_id
    THEN CHOOSE k \in 1..Len(users) :
            /\ Get(users[k], "id", 0) = user_id
            /\ \A j \in 1..(k - 1) : Get(users[j], "id", 0) # user_id
    ELSE 0

NotConnected(op) ==
    /\ db_return' = [op |-> op, value |-> "Database not connected",
                     raised |-> "DatabaseConnectionError"]
    /\ UNCHANGED <<is_connected, data, stats, now>>

\* Database.connect
connect ==
    /\ data # <<>>
    /\ IF is_connected
       THEN UNCHANGED <<is_connected, stats>>
       ELSE /\ stats' = [stats EXCEPT !.connection_time = now]
            /\ is_connected' = TRUE
    /\ db_return' = [op |-> "connect", value |-> "None", raised |-> ""]
    /\ UNCHANGED <<data, now>>
    /\ UNCHANGED <<visitVars, secVars, fileVars, cmdVars>>

\* Database.disconnect
disconnect ==
    /\ data # <<>>
    /\ is_connected' = FALSE
    /\ db_return' = [op |-> "disconnect", value |-> "None", raised |-> ""]
    /\ UNCHANGED <<data, stats, now>>
    /\ UNCHANGED <<visitVars, secVars, fileVars, cmdVars>>

\* Database.create_user(user_data)
create_user ==
    /\ data # <<>>
    /\ now < MaxClock
    /\ \E user_data \in UserData :
         IF ~is_connected THEN NotConnected("create_user")
         ELSE IF validate_user_data(user_data) # ""
         THEN /\ db_return' = [op |-> "create_user",
                               value |-> validate_user_data(user_data),
                               raised |-> "DatabaseValidationError"]
              /\ UNCHANGED <<is_connected, data, stats, now>>
         ELSE LET existing_ids ==
                      [k \in 1..Len(data.users) |-> Get(data.users[k], "id", 0)]
                  ids == Range(existing_ids) \cup {0}    \* default=0
                  new_id == (CHOOSE m \in ids : \A x \in ids : x <= m) + 1
                  new_user == Updated(user_data,
                                      [id |-> new_id, created_at |-> now,
                                       updated_at |-> now])
              IN  /\ data' = [data EXCEPT !.users = Append(@, new_user)]
                  /\ stats' = [stats EXCEPT !.records_created = @ + 1]
                  /\ now' = now + 1
                  /\ db_return' = [op |-> "create_user", value |-> new_id,
                                   raised |-> ""]
                  /\ UNCHANGED is_connected
    /\ UNCHANGED <<visitVars, secVars, fileVars, cmdVars>>

\* Database.update_user(user_id, update_data)
update_user ==
    /\ data # <<>>
    /\ now < MaxClock
    /\ \E user_id \in 1..MaxUserId, update_data \in UpdateData :
         LET i == FirstWithId(data.users, user_id)
         IN  IF ~is_connected THEN NotConnected("update_user")
             ELSE IF i = 0
             THEN /\ db_return' = [op |-> "update_user", value |-> FALSE,
                                   raised |-> ""]
                  /\ UNCHANGED <<is_connected, data, stats, now>>
             ELSE /\ data' = [data EXCEPT !.users[i] =
                                Updated(Updated(@, update_data),
                                        [updated_at |-> now])]
                  /\ stats' = [stats EXCEPT !.records_updated = @ + 1]
                  /\ now' = now + 1
                  /\ db_return' = [op |-> "update_user", value |-> TRUE,
                                   raised |-> ""]
                  /\ UNCHANGED is_connected
    /\ UNCHANGED <<visitVars, secVars, fileVars, cmdVars>>

\* Database.delete_user(user_id)
delete_user ==
    /\ data # <<>>
    /\ \E user_id \in 1..MaxUserId :
         LET i == FirstWithId(data.users, user_id)
         IN  IF ~is_connected THEN NotConnected("delete_user")
             ELSE IF i = 0
             THEN /\ db_return' = [op |-> "delete_user", value |-> FALSE,
                                   raised |-> ""]
                  /\ UNCHANGED <<is_connected, data, stats, now>>
             ELSE /\ data' = [data EXCEPT !.users =           \* del users[i]
                                [k \in 1..(Len(@) - 1) |->
                                    IF k < i THEN @[k] ELSE @[k + 1]]]
                  /\ stats' = [stats EXCEPT !.records_deleted = @ + 1]
                  /\ db_return' = [op |-> "delete_user", value |-> TRUE,
                                   raised |-> ""]
                  /\ UNCHANGED <<is_connected, now>>
    /\ UNCHANGED <<visitVars, secVars, fileVars, cmdVars>>

NextDatabase ==
    \/ connect
    \/ disconnect
    \/ create_user
    \/ update_user
    \/ delete_user

SpecDatabase == InitDatabase /\ [][NextDatabase]_vars

----------------------------------------------------------------------------
(* Claims about the Database *)

\* C29: starting from an empty connected store, after any sequence of
\* create_user, update_user and delete_user calls no two stored users have
\* the same email.
C29_EmailsUnique ==
    data # <<>> =>
      \A j, k \in 1..Len(data.users) :
          j # k => Get(data.users[j], "email", "")
                     # Get(data.users[k], "email", "")

\* C30: starting from an empty connected store, after any sequence of
\* create_user, update_user and delete_user calls no two stored users have
\* the same id, and the id create_user returns is the id of no user that
\* was stored when it was called.
C30_IdsUnique ==
    data # <<>> =>
      /\ \A j, k \in 1..Len(data.users) :
            j # k => Get(data.users[j], "id", 0) # Get(data.users[k], "id", 0)
      /\ (db_return.op = "create_user" /\ db_return.raised = "") =>
            \A k \in 1..(Len(data.users) - 1) :
                Get(data.users[k], "id", 0) # db_return.value

====
